---------------------------- MODULE Spec2Model ----------------------------
(***************************************************************************)
(* A model of src/src/sqlite.js: the SQLite database client of the        *)
(* notebook standard library.  Three specifications share the module:     *)
(*   SpecType  the Type Mapper (sqliteType) applied to column types;      *)
(*   SpecOpen  SQLiteDatabaseClient.open: engine initialization and the   *)
(*             Loader (load) running concurrently under Promise.all;      *)
(*   Spec      the facade operations of an opened client over the         *)
(*             embedded engine (query, queryRow, explain, describe,       *)
(*             schema, sql).                                              *)
(***************************************************************************)
EXTENDS Integers, Sequences, FiniteSets, TLC

VARIABLES
  \* ---- SpecType
  typePc,       \* "input" | "mapped" | "idle"
  colType,      \* the declared column type string handed to sqliteType
  semantic,     \* what sqliteType returned
  \* ---- SpecOpen
  source,       \* the argument of open(source)
  cur,          \* the value the Loader currently holds
  loadPc,       \* "call" | "fetching" | "reading" | "done" | "failed" | "idle"
  loadCalls,    \* number of invocations of load so far
  ioCount,      \* number of fetch / arrayBuffer requests issued so far
  loadErr,      \* the error the Loader's promise rejected with
  enginePc,     \* "requiring" | "initializing" | "ready" | "failed" | "idle"
  engineErr,    \* the error sqlite(require) rejected with
  allErr,       \* the rejection reason of Promise.all (first rejection wins)
  openPc,       \* "awaiting" | "returned" | "threw" | "idle"
  openErr,      \* the error open rejected with
  client,       \* the SQLiteDatabaseClient open returned
  nextId,       \* allocator of object identities
  \* ---- Spec
  db,           \* the contents of the database behind this._db
  emptySets,    \* whether the engine reports a rowless statement as a result set
  call,         \* the facade operation last called, with its arguments
  sent,         \* the text and parameters last handed to db.exec
  outcome,      \* "none" | "returned" | "threw"
  ret,          \* the value returned, or the error thrown
  dbBefore      \* the database contents when the operation started

typeVars == <<typePc, colType, semantic>>
openVars == <<source, cur, loadPc, loadCalls, ioCount, loadErr, enginePc,
              engineErr, allErr, openPc, openErr, client, nextId>>
clientVars == <<db, emptySets, call, sent, outcome, ret, dbBefore>>
vars == <<typeVars, openVars, clientVars>>

(***************************************************************************)
(* JavaScript values.  Every value is a record and the kinds have         *)
(* different fields, so any two values can be compared.                   *)
(***************************************************************************)
Undefined == [undefined |-> TRUE]
Null == [null |-> TRUE]
Num(n) == [num |-> n]
Str(s) == [str |-> s]
Err(m) == [error |-> m]
\* A plain array; rows arrays carry the expando property `columns`.
Arr(xs) == [items |-> xs, columns |-> Undefined]

\* ToBoolean: what `||` and `!` and `?:` test.
Truthy(v) == v \notin {Undefined, Null, Num(0), Str("")}

StartsWith(s, p) == Len(s) >= Len(p) /\ SubSeq(s, 1, Len(p)) = p

\* F(v), with v evaluated once: const x = v; ... x ... x ...
With(v, F(_)) == CHOOSE y \in {F(x) : x \in {v}} : TRUE

(***************************************************************************)
(* Type Mapper                                                            *)
(***************************************************************************)
\* The character pattern without its closing \( .
CharacterPatternNoParen(type) ==
  \/ \E opt \in {"", "VARYING ", "NATIVE "} :
       StartsWith(type, opt \o "CHARACTER")
  \/ \E pre \in {"N", "VAR", "NVAR"} :
       StartsWith(type, pre \o "CHAR")

\* /^(?:(?:(?:VARYING|NATIVE) )?CHARACTER|(?:N|VAR|NVAR)CHAR)\(/.test(type)
CharacterPattern(type) ==
  \/ \E opt \in {"", "VARYING ", "NATIVE "} :
       StartsWith(type, opt \o "CHARACTER" \o "(")
  \/ \E pre \in {"N", "VAR", "NVAR"} :
       StartsWith(type, pre \o "CHAR" \o "(")

\* /^(?:DECIMAL|NUMERIC)\(/.test(type)
DecimalPattern(type) ==
  \E word \in {"DECIMAL", "NUMERIC"} : StartsWith(type, word \o "(")

sqliteType(type) ==
  CASE type = "NULL" -> "null"
    [] type \in {"INT", "INTEGER", "TINYINT", "SMALLINT", "MEDIUMINT",
                 "BIGINT", "UNSIGNED BIG INT", "INT2", "INT8"} -> "integer"
    [] type \in {"TEXT", "CLOB"} -> "string"
    [] type \in {"REAL", "DOUBLE", "DOUBLE PRECISION", "FLOAT", "NUMERIC"}
         -> "number"
    [] type = "BLOB" -> "buffer"
    [] type \in {"DATE", "DATETIME"} -> "string"
    [] OTHER -> IF CharacterPattern(type) THEN "string"
                ELSE IF DecimalPattern(type) THEN "number"
                ELSE "other"

\* The declared types the Type Mapper is applied to: the names of the
\* engine's affinity table, parameterised types, and strings near them.
EnumeratedTypes ==
  {"NULL", "INT", "INTEGER", "TINYINT", "SMALLINT", "MEDIUMINT", "BIGINT",
   "UNSIGNED BIG INT", "INT2", "INT8", "TEXT", "CLOB", "REAL", "DOUBLE",
   "DOUBLE PRECISION", "FLOAT", "NUMERIC", "BLOB", "DATE", "DATETIME"}
ParameterisedTypes ==
  {"CHARACTER(20)", "VARYING CHARACTER(255)", "NATIVE CHARACTER(70)",
   "NCHAR(55)", "VARCHAR(10)", "NVARCHAR(100)", "DECIMAL(5,2)",
   "NUMERIC(10,5)", "CHARACTER(", "DECIMAL("}
NearbyTypes ==
  {"", "integer", "Integer", "text", "null", "blob", "varchar(10)",
   "decimal(5,2)", "VARCHAR", "NVARCHAR", "NCHAR", "CHARACTER", "DECIMAL",
   "CHAR(10)", "FOOBAR", "BOOLEAN", "INT(11)", "TEXT(5)", "BLOB(2)",
   "DATE(", "DATETIME(3)", " INTEGER", "INTEGER ", " VARCHAR(10)",
   "VARCHAR (10)", "NUMERIC (10,5)", "VARYING CHARACTER",
   "VARYINGCHARACTER(5)", "VARYING  CHARACTER(5)", "VARYING NCHAR(5)",
   "NATIVE VARCHAR(5)", "NATIVE", "XVARCHAR(3)", "NVARVARCHAR(3)",
   "VARNCHAR(3)", "UNSIGNED BIG INT(", "DOUBLE PRECISION(", "FLOAT(",
   "N", "("}
TypeStrings == EnumeratedTypes \cup ParameterisedTypes \cup NearbyTypes

IdleType == typePc = "idle" /\ colType = "" /\ semantic = ""

InitType == typePc = "input" /\ colType \in TypeStrings /\ semantic = ""

\* const t = sqliteType(type);
MapType ==
  /\ typePc = "input"
  /\ semantic' = sqliteType(colType)
  /\ typePc' = "mapped"
  /\ UNCHANGED colType

\* The next column of the table: schema() maps every row of the column list.
NextColumn ==
  /\ typePc = "mapped"
  /\ \E t \in TypeStrings : colType' = t
  /\ typePc' = "input"
  /\ UNCHANGED semantic

(***************************************************************************)
(* Loader and open                                                        *)
(***************************************************************************)
\* A source value: its kind (typeof / instanceof), the database image it
\* holds (for a string, the URL), and its object identity.
Images == {"imageA", "imageB"}
Urls == {"https://host/a.db", "https://host/b.db"}
Remote(url) == IF url = "https://host/a.db" THEN "imageA" ELSE "imageB"
Val(kind, data, id) == [kind |-> kind, data |-> data, id |-> id]
NoVal == Val("none", "", 0)
Sources ==
  {Val("string", u, 0) : u \in Urls}
    \cup {Val(k, i, 1) : k \in {"Response", "Blob", "ArrayBuffer", "Uint8Array"},
                         i \in Images}
    \cup {Val("undefined", "", 0)}

\* load without the ArrayBuffer branch: the buffer is handed on unwrapped.
LoadNoWrap(s) ==
  CASE s.kind = "string" -> "fetch"
    [] s.kind \in {"Response", "Blob"} -> "arrayBuffer"
    [] OTHER -> "return"

\* function load(source): which branch of the conditional chain is taken.
Load(s) ==
  CASE s.kind = "string" -> "fetch"
    [] s.kind \in {"Response", "Blob"} -> "arrayBuffer"
    [] s.kind = "ArrayBuffer" -> "wrap"
    [] OTHER -> "return"

\* await Promise.all([...]) resumed as soon as the Loader is done.
AllFulfilledLoaderOnly(e, l) == l = "done"

\* Promise.all([sqlite(requireDefault), Promise.resolve(source).then(load)])
\* is fulfilled once both promises are.
AllFulfilled(e, l) == e = "ready" /\ l = "done"

\* The rejection of Promise.all: the first rejection settles it.
Reject(err) == IF allErr = Undefined THEN err ELSE allErr

IdleOpen ==
  /\ source = NoVal /\ cur = NoVal /\ loadPc = "idle" /\ loadCalls = 0
  /\ ioCount = 0 /\ loadErr = Undefined /\ enginePc = "idle"
  /\ engineErr = Undefined /\ allErr = Undefined /\ openPc = "idle"
  /\ openErr = Undefined /\ client = Undefined /\ nextId = 0

\* open(source) has been called: both promises of line 16 are pending.
InitOpen ==
  /\ source \in Sources
  /\ cur = source
  /\ loadPc = "call" /\ loadCalls = 0 /\ ioCount = 0 /\ loadErr = Undefined
  /\ enginePc = "requiring" /\ engineErr = Undefined
  /\ allErr = Undefined
  /\ openPc = "awaiting" /\ openErr = Undefined /\ client = Undefined
  /\ nextId = 2

engineSide == <<enginePc, engineErr>>
loadSide == <<cur, loadPc, loadCalls, ioCount, loadErr, nextId>>
openSide == <<openPc, openErr, client>>

\* One invocation of load(cur).
LoadCall ==
  /\ loadPc = "call"
  /\ loadCalls' = loadCalls + 1
  /\ LET branch == Load(cur) IN
       CASE branch = "fetch" ->
              /\ loadPc' = "fetching" /\ ioCount' = ioCount + 1
              /\ UNCHANGED <<cur, nextId>>
         [] branch = "arrayBuffer" ->
              /\ loadPc' = "reading" /\ ioCount' = ioCount + 1
              /\ UNCHANGED <<cur, nextId>>
         [] branch = "wrap" ->
              /\ cur' = Val("Uint8Array", cur.data, nextId)
              /\ nextId' = nextId + 1
              /\ loadPc' = "done"
              /\ UNCHANGED ioCount
         [] OTHER ->
              /\ loadPc' = "done"
              /\ UNCHANGED <<cur, nextId, ioCount>>
  /\ UNCHANGED <<source, loadErr, engineSide, allErr, openSide>>

\* fetch(source) fulfils with a Response; .then(load) calls load on it.
FetchOk ==
  /\ loadPc = "fetching"
  /\ cur' = Val("Response", Remote(cur.data), nextId)
  /\ nextId' = nextId + 1
  /\ loadPc' = "call"
  /\ UNCHANGED <<source, loadCalls, ioCount, loadErr, engineSide, allErr, openSide>>

\* fetch(source) rejects: the rejection passes through .then(load).
FetchFail ==
  /\ loadPc = "fetching"
  /\ loadPc' = "failed"
  /\ loadErr' = Err("fetch failed")
  /\ allErr' = Reject(Err("fetch failed"))
  /\ UNCHANGED <<source, cur, loadCalls, ioCount, nextId, engineSide, openSide>>

\* source.arrayBuffer() fulfils with an ArrayBuffer.
ReadOk ==
  /\ loadPc = "reading"
  /\ cur' = Val("ArrayBuffer", cur.data, nextId)
  /\ nextId' = nextId + 1
  /\ loadPc' = "call"
  /\ UNCHANGED <<source, loadCalls, ioCount, loadErr, engineSide, allErr, openSide>>

ReadFail ==
  /\ loadPc = "reading"
  /\ loadPc' = "failed"
  /\ loadErr' = Err("read failed")
  /\ allErr' = Reject(Err("read failed"))
  /\ UNCHANGED <<source, cur, loadCalls, ioCount, nextId, engineSide, openSide>>

\* sqlite(require): const init = await require(sql.resolve());
RequireOk ==
  /\ enginePc = "requiring"
  /\ enginePc' = "initializing"
  /\ UNCHANGED <<source, loadSide, engineErr, allErr, openSide>>

RequireFail ==
  /\ enginePc = "requiring"
  /\ enginePc' = "failed"
  /\ engineErr' = Err("require failed")
  /\ allErr' = Reject(Err("require failed"))
  /\ UNCHANGED <<source, loadSide, openSide>>

\* sqlite(require): return init({locateFile: ...});
InitEngineOk ==
  /\ enginePc = "initializing"
  /\ enginePc' = "ready"
  /\ UNCHANGED <<source, loadSide, engineErr, allErr, openSide>>

InitEngineFail ==
  /\ enginePc = "initializing"
  /\ enginePc' = "failed"
  /\ engineErr' = Err("init failed")
  /\ allErr' = Reject(Err("init failed"))
  /\ UNCHANGED <<source, loadSide, openSide>>

\* return new SQLiteDatabaseClient(new SQL.Database(buffer));
OpenReturn ==
  /\ openPc = "awaiting"
  /\ allErr = Undefined
  /\ AllFulfilled(enginePc, loadPc)
  /\ client' = [_db |-> [buffer |-> cur, engine |-> enginePc]]
  /\ openPc' = "returned"
  /\ UNCHANGED <<source, loadSide, engineSide, allErr, openErr>>

\* The await of line 16 throws the rejection of Promise.all.
OpenThrow ==
  /\ openPc = "awaiting"
  /\ allErr # Undefined
  /\ openErr' = allErr
  /\ openPc' = "threw"
  /\ UNCHANGED <<source, loadSide, engineSide, allErr, client>>

(***************************************************************************)
(* JavaScript objects, arrays and strings as the client uses them         *)
(***************************************************************************)
\* An object is its own properties in insertion order.
Obj(entries) == [entries |-> entries]
Entry(k, v) == [key |-> k, value |-> v]
HasKey(o, k) == \E i \in 1..Len(o.entries) : o.entries[i].key = k
\* o[k]
Get(o, k) ==
  IF HasKey(o, k)
  THEN o.entries[CHOOSE i \in 1..Len(o.entries) : o.entries[i].key = k].value
  ELSE Undefined
\* o[k] = v: an existing key keeps its place and takes the new value.
Put(o, k, v) ==
  IF HasKey(o, k)
  THEN Obj([i \in 1..Len(o.entries) |->
              IF o.entries[i].key = k THEN Entry(k, v) ELSE o.entries[i]])
  ELSE Obj(Append(o.entries, Entry(k, v)))

RECURSIVE FromEntriesFrom(_, _)
FromEntriesFrom(o, es) ==
  IF es = <<>> THEN o
  ELSE With(Put(o, Head(es).key, Head(es).value),
            LAMBDA o2 : FromEntriesFrom(o2, Tail(es)))

\* Object.fromEntries that keeps the first value of a repeated key.
RECURSIVE FirstWinsFrom(_, _)
FirstWinsFrom(o, es) ==
  IF es = <<>> THEN o
  ELSE With(IF HasKey(o, Head(es).key) THEN o
            ELSE Put(o, Head(es).key, Head(es).value),
            LAMBDA o2 : FirstWinsFrom(o2, Tail(es)))
FromEntriesFirstWins(es) == FirstWinsFrom(Obj(<<>>), es)

\* Object.fromEntries(es): the entries are defined one after the other.
FromEntries(es) == FromEntriesFrom(Obj(<<>>), es)

\* The column-name list a rows array carries as rows.columns.
Cols(names) == [names |-> names]

Digit(d) == SubSeq("0123456789", d + 1, d + 1)
RECURSIVE DecStr(_)
DecStr(n) == IF n < 10 THEN Digit(n) ELSE DecStr(n \div 10) \o Digit(n % 10)

\* String(v) for the scalar values the engine returns.
StringOf(v) ==
  CASE "str" \in DOMAIN v -> v.str
    [] "num" \in DOMAIN v -> DecStr(v.num)
    [] v = Null -> "null"
    [] OTHER -> "undefined"

\* Array.prototype.join on an array of strings.
RECURSIVE JoinStr(_, _)
JoinStr(xs, sep) ==
  IF xs = <<>> THEN ""
  ELSE IF Len(xs) = 1 THEN xs[1]
  ELSE xs[1] \o sep \o JoinStr(Tail(xs), sep)

\* Array.prototype.join on values: null and undefined become "".
JoinValues(vs, sep) ==
  JoinStr([i \in 1..Len(vs) |->
             IF vs[i] \in {Null, Undefined} THEN "" ELSE StringOf(vs[i])], sep)

(***************************************************************************)
(* Render helpers                                                         *)
(***************************************************************************)
\* element(name, props, children); element(name, children) has no props.
Element(name, props, children) ==
  [tag |-> name, props |-> props, children |-> children]
\* text(value): createTextNode converts its argument to a string.
Text(value) == [data |-> StringOf(value)]

(***************************************************************************)
(* The embedded engine behind db.exec(query, params).  The engine parses  *)
(* the SQL itself; the model knows the statements below and rejects any   *)
(* other text as malformed.  A text holds statements separated by "; ";   *)
(* they are prepared, bound and run one after the other, and an error     *)
(* ends the call without undoing the statements already run.              *)
(***************************************************************************)
SelectTables == "SELECT name FROM sqlite_master WHERE type = 'table'"
TableInfo == "SELECT * FROM pragma_table_info(?)"
SelectAB == "SELECT ? AS a, ? AS b"
SelectAA == "SELECT ? AS a, ? AS a"
CreateT == "CREATE TABLE t (id INTEGER NOT NULL, name TEXT)"
CreateU == "CREATE TABLE u (x VARCHAR(10) NOT NULL, y [NULL], z FOOBAR)"
DropT == "DROP TABLE t"
ExplainPrefix == "EXPLAIN QUERY PLAN "

Column(name, type, notnull) == [name |-> name, type |-> type, notnull |-> notnull]
TableT == [name |-> "t",
           cols |-> <<Column("id", "INTEGER", 1), Column("name", "TEXT", 0)>>]
TableU == [name |-> "u",
           cols |-> <<Column("x", "VARCHAR(10)", 1), Column("y", "NULL", 0),
                      Column("z", "FOOBAR", 0)>>]

SelectStmts == {SelectTables, TableInfo, SelectAB, SelectAA}
DdlStmts == {CreateT, CreateU, DropT}
BaseStmts == SelectStmts \cup DdlStmts
KnownStmts == BaseStmts \cup {ExplainPrefix \o b : b \in BaseStmts}

HasTable(d, name) == \E i \in 1..Len(d) : d[i].name = name
TableNamed(d, name) == d[CHOOSE i \in 1..Len(d) : d[i].name = name]
RECURSIVE WithoutTable(_, _)
WithoutTable(d, name) ==
  IF d = <<>> THEN <<>>
  ELSE IF Head(d).name = name THEN WithoutTable(Tail(d), name)
  ELSE <<Head(d)>> \o WithoutTable(Tail(d), name)

RECURSIVE CountFrom(_, _, _)
CountFrom(text, ch, i) ==
  IF i > Len(text) THEN 0
  ELSE (IF SubSeq(text, i, i) = ch THEN 1 ELSE 0) + CountFrom(text, ch, i + 1)
\* The number of ? placeholders of a statement.
Placeholders(text) == CountFrom(text, "?", 1)

\* The value bound to placeholder i: NULL when none was given.
Bound(params, i) ==
  IF params # Undefined /\ i <= Len(params.items) THEN params.items[i] ELSE Null

NoResult == Undefined
\* A statement's result set.  A statement that yields no row adds no result
\* set; an engine for which emptySets holds reports it with no value rows.
Rowset(columns, values) ==
  IF values = <<>> /\ ~emptySets THEN NoResult
  ELSE [columns |-> columns, values |-> values]

Ran(d, result) == [db |-> d, result |-> result, error |-> Undefined]
Failed(d, message) == [db |-> d, result |-> NoResult, error |-> Err(message)]

TableInfoColumns == <<"cid", "name", "type", "notnull", "dflt_value", "pk">>
TableInfoRows(d, name) ==
  IF "str" \in DOMAIN name /\ HasTable(d, name.str)
  THEN LET cols == TableNamed(d, name.str).cols IN
       [i \in 1..Len(cols) |->
          <<Num(i - 1), Str(cols[i].name), Str(cols[i].type),
            Num(cols[i].notnull), Null, Num(0)>>]
  ELSE <<>>

\* A data definition statement: checked when prepared, applied when run.
RunDdl(d, stmt, apply) ==
  CASE stmt = CreateT ->
         IF HasTable(d, "t") THEN Failed(d, "table t already exists")
         ELSE Ran(IF apply THEN Append(d, TableT) ELSE d, NoResult)
    [] stmt = CreateU ->
         IF HasTable(d, "u") THEN Failed(d, "table u already exists")
         ELSE Ran(IF apply THEN Append(d, TableU) ELSE d, NoResult)
    [] OTHER ->
         IF ~HasTable(d, "t") THEN Failed(d, "no such table: t")
         ELSE Ran(IF apply THEN WithoutTable(d, "t") ELSE d, NoResult)

RunSelect(d, stmt, params) ==
  CASE stmt = SelectTables ->
         Ran(d, Rowset(<<"name">>, [i \in 1..Len(d) |-> <<Str(d[i].name)>>]))
    [] stmt = TableInfo ->
         Ran(d, Rowset(TableInfoColumns, TableInfoRows(d, Bound(params, 1))))
    [] stmt = SelectAB ->
         Ran(d, Rowset(<<"a", "b">>, << <<Bound(params, 1), Bound(params, 2)>> >>))
    [] OTHER ->
         Ran(d, Rowset(<<"a", "a">>, << <<Bound(params, 1), Bound(params, 2)>> >>))

\* One prepared statement: bind the parameters, then step it to the end.
RunStatement(d, stmt, params) ==
  LET explained == StartsWith(stmt, ExplainPrefix)
      base == IF explained
              THEN SubSeq(stmt, Len(ExplainPrefix) + 1, Len(stmt)) ELSE stmt
  IN
  IF params # Undefined /\ Len(params.items) > Placeholders(stmt)
  THEN Failed(d, "column index out of range")
  ELSE IF base \in DdlStmts THEN RunDdl(d, base, ~explained)
  ELSE IF explained
  THEN Ran(d, Rowset(<<"id", "parent", "notused", "detail">>,
                     << <<Num(2), Num(0), Num(0), Str("SCAN " \o base)>> >>))
  ELSE RunSelect(d, base, params)

\* The statement a text starts with, and the text after it.
Statements(text) == {s \in KnownStmts : text = s \/ StartsWith(text, s \o "; ")}
NextStatement(text) == CHOOSE s \in Statements(text) : TRUE
Rest(text, s) == IF text = s THEN "" ELSE SubSeq(text, Len(s) + 3, Len(text))

RECURSIVE ExecFrom(_, _, _, _)
\* What follows statement s of the text, which ran as r.
ExecAfter(r, text, s, params, results) ==
  IF r.error # Undefined
  THEN [db |-> r.db, results |-> results, error |-> r.error]
  ELSE ExecFrom(r.db, Rest(text, s), params,
                IF r.result = NoResult THEN results
                ELSE Append(results, r.result))
ExecFrom(d, text, params, results) ==
  IF text = "" THEN [db |-> d, results |-> results, error |-> Undefined]
  ELSE IF Statements(text) = {}
  THEN [db |-> d, results |-> results, error |-> Err("syntax error")]
  ELSE With(RunStatement(d, NextStatement(text), params),
            LAMBDA r : ExecAfter(r, text, NextStatement(text), params, results))

\* db.exec(query, params): the result sets of the statements that yielded
\* one, in order, or the first error.
EngineExec(d, text, params) == ExecFrom(d, text, params, <<>>)

(***************************************************************************)
(* Result Shaper and Client Facade.  Each handler is an operator from the *)
(* database contents and the arguments to what the call leaves behind:    *)
(* the database contents, how the call ended, the value returned (or the  *)
(* error thrown), and what was handed to db.exec.                         *)
(***************************************************************************)
Returned(d, v, text, params) ==
  [db |-> d, outcome |-> "returned", ret |-> v,
   sent |-> [text |-> text, params |-> params]]
Threw(d, e, text, params) ==
  [db |-> d, outcome |-> "threw", ret |-> e,
   sent |-> [text |-> text, params |-> params]]

\* values.map(row => Object.fromEntries(row.map((value, i) => [columns[i], value])))
RowObjects(columns, values) ==
  [k \in 1..Len(values) |->
     FromEntries([i \in 1..Len(values[k]) |->
                    Entry(IF i <= Len(columns) THEN columns[i] ELSE "undefined",
                          values[k][i])])]

\* The rows array with null in place of an empty array.
ExecResultNullWhenEmpty(e, query, params) ==
  LET result == IF e.results = <<>> THEN Undefined ELSE e.results[1] IN
  IF e.error # Undefined THEN Threw(e.db, e.error, query, params)
  ELSE IF ~Truthy(result) \/ result.values = <<>>
  THEN Returned(e.db, Null, query, params)
  ELSE Returned(e.db,
                [items |-> RowObjects(result.columns, result.values),
                 columns |-> Cols(result.columns)],
                query, params)

\* exec from the point where db.exec has answered e.
ExecResult(e, query, params) ==
  \* const [result] = await db.exec(query, params);
  LET result == IF e.results = <<>> THEN Undefined ELSE e.results[1] IN
  IF e.error # Undefined THEN Threw(e.db, e.error, query, params)
  \* if (!result) return [];
  ELSE IF ~Truthy(result) THEN Returned(e.db, Arr(<<>>), query, params)
  ELSE Returned(e.db,
                [items |-> RowObjects(result.columns, result.values),
                 columns |-> Cols(result.columns)],
                query, params)

\* exec inside a transaction that is rolled back when a statement fails.
ExecRollback(d, query, params) ==
  With(EngineExec(d, query, params),
       LAMBDA e : ExecResult(IF e.error # Undefined THEN [e EXCEPT !.db = d] ELSE e,
                             query, params))

\* async function exec(db, query, params)
Exec(d, query, params) ==
  With(EngineExec(d, query, params), LAMBDA e : ExecResult(e, query, params))

\* async query(query, params)
Query(d, query, params) == Exec(d, query, params)

\* rows[0]
First(rows) == IF Len(rows.items) >= 1 THEN rows.items[1] ELSE Undefined

\* The last row instead of the first, and undefined for no row.
FirstOrNullLast(r) ==
  IF r.outcome = "threw" THEN r
  ELSE [r EXCEPT !.ret = IF Len(r.ret.items) >= 1
                         THEN r.ret.items[Len(r.ret.items)] ELSE Undefined]

\* (await this.query(query, params))[0] || null, the query having ended as r.
FirstOrNull(r) ==
  IF r.outcome = "threw" THEN r
  ELSE [r EXCEPT !.ret = IF Truthy(First(r.ret)) THEN First(r.ret) ELSE Null]

\* async queryRow(query, params)
QueryRow(d, query, params) == With(Query(d, query, params), FirstOrNull)

\* The <pre> element of the plan's detail lines, the query having ended as r.
Plan(r) ==
  IF r.outcome = "threw" THEN r
  ELSE [r EXCEPT !.ret =
          Element("pre", Obj(<<Entry("className", Str("observablehq--inspect"))>>),
                  <<Text(Str(JoinValues(
                      [k \in 1..Len(r.ret.items) |-> Get(r.ret.items[k], "detail")],
                      "\n")))>>)]

\* async explain(query, params)
Explain(d, query, params) == With(Query(d, ExplainPrefix \o query, params), Plan)

\* The query of describe and of schema: all tables, or one table's columns.
Introspect(d, object) ==
  IF object = Undefined THEN Query(d, SelectTables, Undefined)
  ELSE Query(d, TableInfo, Arr(<<object>>))

\* The <table> element of the rows.
Table(rows) ==
  LET columns == rows.columns.names
      th == [i \in 1..Len(columns) |->
               Element("th", Undefined, <<Text(Str(columns[i]))>>)]
      tr(row) == Element("tr", Undefined,
                   [i \in 1..Len(columns) |->
                      Element("td", Undefined, <<Text(Get(row, columns[i]))>>)])
  IN Element("table", Obj(<<Entry("value", rows)>>),
             <<Element("thead", Undefined, <<Element("tr", Undefined, th)>>),
               Element("tbody", Undefined,
                       [k \in 1..Len(rows.items) |-> tr(rows.items[k])])>>)

\* describe without the test of rows.length.
RenderedUnchecked(r) ==
  IF r.outcome = "threw" THEN r
  ELSE [r EXCEPT !.ret = IF Len(r.ret.items) = 0
                         THEN Element("table", Obj(<<Entry("value", r.ret)>>), <<>>)
                         ELSE Table(r.ret)]

\* describe from the point where its query has ended as r.
Rendered(r) ==
  IF r.outcome = "threw" THEN r
  \* if (!rows.length) throw new Error("Not found");
  ELSE IF Len(r.ret.items) = 0
  THEN [r EXCEPT !.outcome = "threw", !.ret = Err("Not found")]
  ELSE [r EXCEPT !.ret = Table(r.ret)]

\* async describe(object)
Describe(d, object) == With(Introspect(d, object), Rendered)

\* The descriptor with the nullable test inverted.
ColumnDescriptorSwapped(row) ==
  LET type == Get(row, "type")
      t == sqliteType(StringOf(type))
  IN Obj(<<Entry("type", IF ~Truthy(Get(row, "notnull")) \/ t = "null" THEN Str(t)
                         ELSE Arr(<<Str(t), Str("null")>>)),
           Entry("databaseType", type)>>)

\* {type: notnull || t === "null" ? t : [t, "null"], databaseType: type}
ColumnDescriptor(row) ==
  LET type == Get(row, "type")
      t == sqliteType(StringOf(type))
  IN Obj(<<Entry("type", IF Truthy(Get(row, "notnull")) \/ t = "null" THEN Str(t)
                         ELSE Arr(<<Str(t), Str("null")>>)),
           Entry("databaseType", type)>>)

ObjectSchema(properties) ==
  Obj(<<Entry("type", Str("object")), Entry("properties", properties)>>)

\* schema from the point where its query has ended as r.
Described(r, table) ==
  IF r.outcome = "threw" THEN r
  ELSE IF table = Undefined
  THEN [r EXCEPT !.ret = ObjectSchema(FromEntries(
          [k \in 1..Len(r.ret.items) |->
             Entry(StringOf(Get(r.ret.items[k], "name")),
                   Obj(<<Entry("type", Str("array")),
                         Entry("items", Obj(<<Entry("type", Str("object"))>>))>>))]))]
  \* if (!rows.length) throw new Error(`table not found: ${table}`);
  ELSE IF Len(r.ret.items) = 0
  THEN [r EXCEPT !.outcome = "threw",
                 !.ret = Err("table not found: " \o StringOf(table))]
  ELSE [r EXCEPT !.ret = ObjectSchema(FromEntries(
          [k \in 1..Len(r.ret.items) |->
             Entry(StringOf(Get(r.ret.items[k], "name")),
                   ColumnDescriptor(r.ret.items[k]))]))]

\* async schema(table)
Schema(d, table) == With(Introspect(d, table), LAMBDA r : Described(r, table))

\* The template segments joined with a comma.
TemplateTextComma(strings) == JoinStr(strings, ",")

\* strings.join("?")
TemplateText(strings) == JoinStr(strings, "?")

\* async sql(strings, ...args)
Sql(d, strings, args) == Query(d, TemplateText(strings), Arr(args))

(***************************************************************************)
(* The calls a notebook makes                                             *)
(***************************************************************************)
\* The most statements in one query text, and the most bind parameters.
MaxStmts == 2
MaxParams == 2

ParamValues == {Num(1), Num(2), Str("t")}
ParamLists ==
  {Undefined} \cup
  {Arr(xs) : xs \in UNION {[1..n -> ParamValues] : n \in 0..MaxParams}}

\* Texts of several statements, the malformed "SELEC" among them.
ScriptStmts == {CreateT, DropT, SelectTables, "SELEC"}
RECURSIVE Scripts(_)
Scripts(n) ==
  IF n = 1 THEN ScriptStmts
  ELSE Scripts(n - 1) \cup
       {a \o "; " \o b : a \in ScriptStmts, b \in Scripts(n - 1)}
QueryTexts == BaseStmts \cup {"", "SELECT ? AS a, ? AS b;"} \cup Scripts(MaxStmts)

\* The argument of describe and of schema.
ObjectNames == {Undefined, Str("t"), Str("u"), Str("nope")}

\* The template segments of the sql tagged templates.
Templates ==
  {<<"SELECT ", " AS a, ", " AS b">>,
   <<"SELECT ", " AS a, ", " AS a">>,
   <<"SELECT ? AS a, ", " AS b">>,
   <<"SELECT * FROM pragma_table_info(", ")">>,
   <<SelectTables>>,
   <<"DROP TABLE t; SELEC ", "">>,
   <<"", "">>}

InitialDbs == {<<>>, <<TableT>>}
NoCall == [op |-> "none"]
NothingSent == [text |-> "", params |-> Undefined]

IdleClient ==
  /\ db = <<>> /\ emptySets = FALSE /\ call = NoCall /\ sent = NothingSent
  /\ outcome = "none" /\ ret = Undefined /\ dbBefore = <<>>

\* A client constructed over a loaded database.
InitClient ==
  /\ db \in InitialDbs
  /\ emptySets \in BOOLEAN
  /\ call = NoCall /\ sent = NothingSent
  /\ outcome = "none" /\ ret = Undefined
  /\ dbBefore = db

\* No call is being handled: the facade's operations do not overlap.
Ready == outcome = "none"

\* A call c that ended as r.
Finish(c, r) ==
  /\ call' = c
  /\ db' = r.db
  /\ sent' = r.sent
  /\ outcome' = r.outcome
  /\ ret' = r.ret
  /\ dbBefore' = db
  /\ UNCHANGED <<emptySets, typeVars, openVars>>

CallQuery ==
  /\ Ready
  /\ \E q \in QueryTexts, p \in ParamLists :
       \E r \in {Query(db, q, p)} :
         Finish([op |-> "query", query |-> q, params |-> p], r)

CallQueryRow ==
  /\ Ready
  /\ \E q \in QueryTexts, p \in ParamLists :
       \E r \in {QueryRow(db, q, p)} :
         Finish([op |-> "queryRow", query |-> q, params |-> p], r)

CallExplain ==
  /\ Ready
  /\ \E q \in QueryTexts, p \in ParamLists :
       \E r \in {Explain(db, q, p)} :
         Finish([op |-> "explain", query |-> q, params |-> p], r)

CallDescribe ==
  /\ Ready
  /\ \E o \in ObjectNames :
       \E r \in {Describe(db, o)} :
         Finish([op |-> "describe", object |-> o], r)

CallSchema ==
  /\ Ready
  /\ \E t \in ObjectNames :
       \E r \in {Schema(db, t)} :
         Finish([op |-> "schema", table |-> t], r)

CallSql ==
  /\ Ready
  /\ \E strings \in Templates :
       \E args \in [1..(Len(strings) - 1) -> ParamValues] :
         \E r \in {Sql(db, strings, args)} :
           Finish([op |-> "sql", strings |-> strings, args |-> args], r)

\* The cell that made the call takes its result (or catches its error).
Receive ==
  /\ outcome # "none"
  /\ call' = NoCall /\ sent' = NothingSent
  /\ outcome' = "none" /\ ret' = Undefined
  /\ dbBefore' = db
  /\ UNCHANGED <<db, emptySets, typeVars, openVars>>

(***************************************************************************)
(* Specifications                                                         *)
(***************************************************************************)
Next ==
  \/ CallQuery
  \/ CallQueryRow
  \/ CallExplain
  \/ CallDescribe
  \/ CallSchema
  \/ CallSql
  \/ Receive
Init == IdleType /\ IdleOpen /\ InitClient
Spec == Init /\ [][Next]_vars

NextOpen ==
  \/ (LoadCall /\ UNCHANGED <<typeVars, clientVars>>)
  \/ (FetchOk /\ UNCHANGED <<typeVars, clientVars>>)
  \/ (FetchFail /\ UNCHANGED <<typeVars, clientVars>>)
  \/ (ReadOk /\ UNCHANGED <<typeVars, clientVars>>)
  \/ (ReadFail /\ UNCHANGED <<typeVars, clientVars>>)
  \/ (RequireOk /\ UNCHANGED <<typeVars, clientVars>>)
  \/ (RequireFail /\ UNCHANGED <<typeVars, clientVars>>)
  \/ (InitEngineOk /\ UNCHANGED <<typeVars, clientVars>>)
  \/ (InitEngineFail /\ UNCHANGED <<typeVars, clientVars>>)
  \/ (OpenReturn /\ UNCHANGED <<typeVars, clientVars>>)
  \/ (OpenThrow /\ UNCHANGED <<typeVars, clientVars>>)
InitOpenSpec == IdleType /\ InitOpen /\ IdleClient
SpecOpen == InitOpenSpec /\ [][NextOpen]_vars

NextType ==
  \/ (MapType /\ UNCHANGED <<openVars, clientVars>>)
  \/ (NextColumn /\ UNCHANGED <<openVars, clientVars>>)
InitTypeSpec == InitType /\ IdleOpen /\ IdleClient
SpecType == InitTypeSpec /\ [][NextType]_vars

(***************************************************************************)
(* Properties                                                             *)
(***************************************************************************)
\* The semantic type the documentation gives for a declared type.
DocumentedType(type) ==
  IF type = "NULL" THEN "null"
  ELSE IF type \in {"INT", "INTEGER", "TINYINT", "SMALLINT", "MEDIUMINT",
                    "BIGINT", "UNSIGNED BIG INT", "INT2", "INT8"} THEN "integer"
  ELSE IF type \in {"TEXT", "CLOB", "DATE", "DATETIME"} THEN "string"
  ELSE IF type \in {"REAL", "DOUBLE", "DOUBLE PRECISION", "FLOAT", "NUMERIC"}
  THEN "number"
  ELSE IF type = "BLOB" THEN "buffer"
  ELSE IF \E p \in {"CHARACTER(", "VARYING CHARACTER(", "NATIVE CHARACTER(",
                    "NCHAR(", "VARCHAR(", "NVARCHAR("} : StartsWith(type, p)
  THEN "string"
  ELSE IF StartsWith(type, "DECIMAL(") \/ StartsWith(type, "NUMERIC(")
  THEN "number"
  ELSE "other"

\* C1: for every declared column type string, sqliteType returns the
\* documented semantic type: the enumerated names map to null, integer,
\* string, number and buffer, a string that starts with one of the six
\* character prefixes maps to string, one that starts with DECIMAL( or
\* NUMERIC( to number, and every other string to other.
C1_TypeMapping == typePc = "mapped" => semantic = DocumentedType(colType)

\* A type near a character type, without the pattern's prefix, was mapped.
C1_Witness == typePc = "mapped" /\ colType = "CHAR(10)" /\ semantic = "other"

\* What the engine answers to the text and parameters the call handed it.
EngineAnswer == EngineExec(dbBefore, sent.text, sent.params)
\* The call returned the rows of the engine's first result set.
Shaped ==
  /\ call.op \in {"query", "sql"}
  /\ outcome = "returned"
  /\ EngineAnswer.results # <<>>
\* The last position of a column name in the column list.
LastIndex(columns, name) ==
  CHOOSE j \in 1..Len(columns) :
    /\ columns[j] = name
    /\ \A j2 \in (j + 1)..Len(columns) : columns[j2] # name

\* C2 as stated: the returned sequence has the length and order of the value
\* rows, the k-th mapping's value under columns[i] is values[k][i] for every
\* row k and column i, and the sequence carries the column list.
C2_Positional ==
  Shaped =>
    LET columns == EngineAnswer.results[1].columns
        values == EngineAnswer.results[1].values
    IN /\ Len(ret.items) = Len(values)
       /\ ret.columns = Cols(columns)
       /\ \A k \in 1..Len(values) : \A i \in 1..Len(columns) :
            Get(ret.items[k], columns[i]) = values[k][i]

\* C2: the returned sequence has the length and order of the value rows and
\* carries the column list, and the k-th mapping's value under columns[i] is
\* the value of the last column of that name, values[k][j] with j the last
\* index where columns[j] = columns[i]; it is values[k][i] when no later
\* column repeats the name.
C2_LastColumnWins ==
  Shaped =>
    LET columns == EngineAnswer.results[1].columns
        values == EngineAnswer.results[1].values
    IN /\ Len(ret.items) = Len(values)
       /\ ret.columns = Cols(columns)
       /\ \A k \in 1..Len(values) : \A i \in 1..Len(columns) :
            Get(ret.items[k], columns[i]) = values[k][LastIndex(columns, columns[i])]

\* A result set with a repeated column name and different values under it.
C2_Witness ==
  /\ Shaped
  /\ LET columns == EngineAnswer.results[1].columns
         values == EngineAnswer.results[1].values
     IN \E i, j \in 1..Len(columns) :
          i < j /\ columns[i] = columns[j] /\ values[1][i] # values[1][j]

\* C3: queryRow returns null when query yields zero rows, and otherwise the
\* first row mapping of query, never another row or an absent value; an error
\* of query is thrown unchanged.
C3_QueryRow ==
  call.op = "queryRow" =>
    LET q == Query(dbBefore, call.query, call.params) IN
    IF q.outcome = "threw" THEN outcome = "threw" /\ ret = q.ret
    ELSE /\ outcome = "returned"
         /\ ret # Undefined
         /\ ret = IF Len(q.ret.items) = 0 THEN Null ELSE q.ret.items[1]

\* queryRow over a query of several different rows.
C3_Witness ==
  /\ call.op = "queryRow"
  /\ outcome = "returned"
  /\ LET q == Query(dbBefore, call.query, call.params) IN
       Len(q.ret.items) >= 2 /\ q.ret.items[1] # q.ret.items[2]

\* C4: query on a statement that produces zero rows (no result set, or a
\* result set with no value rows) returns an empty sequence, never null or
\* an absent value.
C4_EmptySequence ==
  (/\ call.op = "query"
   /\ outcome = "returned"
   /\ (EngineAnswer.results = <<>> \/ EngineAnswer.results[1].values = <<>>))
  => (/\ ret \notin {Null, Undefined}
      /\ "items" \in DOMAIN ret
      /\ ret.items = <<>>)

\* The table listing of a database without tables, with no result set.
C4_Witness ==
  /\ call.op = "query"
  /\ call.query = SelectTables
  /\ outcome = "returned"
  /\ EngineAnswer.results = <<>>

\* schema was called with the name of a table the database holds.
SchemaOfTable ==
  /\ call.op = "schema"
  /\ "str" \in DOMAIN call.table
  /\ HasTable(dbBefore, call.table.str)

\* C5: schema(table) for an existing table returns {type: "object",
\* properties} where properties holds, for every column, databaseType as the
\* declared type unchanged and type as the Type Mapper's type t alone when
\* the column is NOT NULL or t is "null", and as [t, "null"] otherwise.
C5_Schema ==
  SchemaOfTable =>
    LET cols == TableNamed(dbBefore, call.table.str).cols
        properties == Get(ret, "properties")
    IN /\ outcome = "returned"
       /\ Get(ret, "type") = Str("object")
       /\ Len(properties.entries) = Len(cols)
       /\ \A i \in 1..Len(cols) :
            LET t == sqliteType(cols[i].type)
                descriptor == Get(properties, cols[i].name)
            IN /\ Get(descriptor, "databaseType") = Str(cols[i].type)
               /\ Get(descriptor, "type") =
                    IF cols[i].notnull = 1 \/ t = "null" THEN Str(t)
                    ELSE Arr(<<Str(t), Str("null")>>)

\* schema("t") of the table with a NOT NULL INTEGER id and a nullable TEXT name.
C5_Witness ==
  /\ SchemaOfTable
  /\ call.table = Str("t")
  /\ Get(ret, "properties") =
       Obj(<<Entry("id", Obj(<<Entry("type", Str("integer")),
                              Entry("databaseType", Str("INTEGER"))>>)),
             Entry("name", Obj(<<Entry("type", Arr(<<Str("string"), Str("null")>>)),
                                Entry("databaseType", Str("TEXT"))>>))>>)

\* describe or schema was asked about something the database does not hold:
\* describe() with no table defined, or a name that is no table's.
NothingToDescribe ==
  \/ call.op = "describe" /\ call.object = Undefined /\ dbBefore = <<>>
  \/ /\ call.op = "describe"
     /\ "str" \in DOMAIN call.object
     /\ ~HasTable(dbBefore, call.object.str)
  \/ /\ call.op = "schema"
     /\ "str" \in DOMAIN call.table
     /\ ~HasTable(dbBefore, call.table.str)

\* C6: describe fails with a not-found error when its query returns zero
\* rows (no table defined, or a name without column metadata), and so does
\* schema(name) for a table without columns; nothing is returned.
C6_NotFound ==
  NothingToDescribe =>
    /\ outcome = "threw"
    /\ ret = IF call.op = "describe" THEN Err("Not found")
             ELSE Err("table not found: " \o call.table.str)

\* describe() on a database without tables.
C6_Witness ==
  /\ call.op = "describe"
  /\ call.object = Undefined
  /\ dbBefore = <<>>
  /\ outcome = "threw"

\* C7 as stated: whenever a facade operation ends in an error, the database
\* contents are the same as before the operation started.
C7_Atomic == outcome = "threw" => db = dbBefore

\* The first statement of the text handed to the engine is the one that fails.
FirstStatementFails ==
  \/ Statements(sent.text) = {}
  \/ RunStatement(dbBefore, NextStatement(sent.text), sent.params).error # Undefined

\* C7: whenever a facade operation ends in an error, the database is as the
\* engine left it when the error was raised: the statements of the query text
\* that ran before the failing one stay applied, and the database is the same
\* as before the operation when the text's first statement is the one that
\* fails or when the error is a not-found error of describe or schema.
C7_NoRollback ==
  outcome = "threw" =>
    /\ db = EngineAnswer.db
    /\ (FirstStatementFails => db = dbBefore)
    /\ (call.op \in {"describe", "schema"} => db = dbBefore)

\* A failed operation that left the database changed.
C7_Witness == outcome = "threw" /\ db # dbBefore

RECURSIVE Offset(_, _)
\* Where segment i starts in the joined text.
Offset(strings, i) ==
  IF i = 1 THEN 0 ELSE Offset(strings, i - 1) + Len(strings[i - 1]) + 1
RECURSIVE SegmentPlaceholders(_, _)
SegmentPlaceholders(strings, n) ==
  IF n = 0 THEN 0
  ELSE SegmentPlaceholders(strings, n - 1) + Placeholders(strings[n])

\* C8: sql(strings, ...values) is query(T, values) where T is the segments
\* in order with a single "?" between consecutive segments: the values are
\* bound in interpolation order, segments minus one placeholders are
\* inserted, and the result or error is that of query.
C8_Sql ==
  call.op = "sql" =>
    LET strings == call.strings
        n == Len(strings)
        q == Query(dbBefore, sent.text, Arr(call.args))
    IN /\ sent.params = Arr(call.args)
       /\ Len(sent.text) = Offset(strings, n) + Len(strings[n])
       /\ \A i \in 1..n :
            SubSeq(sent.text, Offset(strings, i) + 1,
                   Offset(strings, i) + Len(strings[i])) = strings[i]
       /\ \A i \in 2..n :
            SubSeq(sent.text, Offset(strings, i), Offset(strings, i)) = "?"
       /\ Placeholders(sent.text) = SegmentPlaceholders(strings, n) + (n - 1)
       /\ outcome = q.outcome /\ ret = q.ret /\ db = q.db

\* A template of three segments whose two values came back in order.
C8_Witness ==
  /\ call.op = "sql"
  /\ Len(call.strings) = 3
  /\ outcome = "returned"
  /\ call.args[1] # call.args[2]
  /\ ret.columns = Cols(<<"a", "b">>)
  /\ Get(ret.items[1], "a") = call.args[1]
  /\ Get(ret.items[1], "b") = call.args[2]

\* The source is of one of the accepted kinds.
AcceptedSource ==
  source.kind \in {"string", "Response", "Blob", "ArrayBuffer", "Uint8Array"}
\* The bytes the source stands for.
SourceImage == IF source.kind = "string" THEN Remote(source.data) ELSE source.data

\* C9: for a source of an accepted kind the Loader ends in a byte array of
\* the source's bytes after at most three invocations (an already-normalized
\* byte array is returned as the same object), or in the fetch or read error;
\* no fetch or read is issued a second time.
C9_Loader ==
  AcceptedSource =>
    /\ loadCalls <= 3
    /\ loadPc \in {"call", "fetching", "reading", "done", "failed"}
    /\ (loadPc = "done" =>
          /\ cur.kind = "Uint8Array"
          /\ cur.data = SourceImage
          /\ (source.kind = "Uint8Array" => cur = source /\ loadCalls = 1))
    /\ (loadPc = "failed" =>
          loadErr = IF cur.kind = "string" THEN Err("fetch failed")
                    ELSE Err("read failed"))
    /\ (loadPc # "failed" => loadErr = Undefined)
    /\ ioCount <= (CASE source.kind = "string" -> 2
                     [] source.kind \in {"Response", "Blob"} -> 1
                     [] OTHER -> 0)

\* A URL was fetched, read and wrapped: three invocations of load.
C9_Witness ==
  /\ source.kind = "string"
  /\ loadPc = "done"
  /\ loadCalls = 3
  /\ cur.kind = "Uint8Array"

\* C10: open constructs the database handle and returns a client only after
\* both the engine initialization and the source loading have succeeded, in
\* whatever order they complete; when either fails, open fails with the
\* error of a failed one and no handle or client is created.
C10_Open ==
  /\ (client # Undefined =>
        /\ enginePc = "ready" /\ loadPc = "done"
        /\ openPc = "returned"
        /\ client._db.buffer = cur)
  /\ (openPc = "returned" => client # Undefined)
  /\ (enginePc = "failed" \/ loadPc = "failed" =>
        client = Undefined /\ openPc # "returned")
  /\ (openPc = "threw" =>
        /\ client = Undefined
        /\ openErr # Undefined
        /\ \/ enginePc = "failed" /\ openErr = engineErr
           \/ loadPc = "failed" /\ openErr = loadErr)

\* open returned a client over a fetched database.
C10_Witness ==
  /\ openPc = "returned"
  /\ client # Undefined
  /\ source.kind = "string"
  /\ enginePc = "ready"

============================================================================
